---- MODULE Spec2Model ----
(***************************************************************************)
(* Model of standup.py: the Team tree, its constructor check, the          *)
(* traversal Team.get_members under the three shuffle methods, Team.to_dict *)
(* and build_team_from_dict.                                                *)
(*                                                                         *)
(* Python values.  An Optional value is None (the empty tuple) or Some(x)  *)
(* (the one-element tuple holding x), so that an empty list Some(<<>>) and  *)
(* None stay different values, as they are in Python.  A Team object is a   *)
(* record of its three attributes.  A dict is a function from the keys it   *)
(* holds to their values.  A call either returns or raises: Ok / Raise.     *)
(***************************************************************************)
EXTENDS Integers, Sequences, FiniteSets

VARIABLES
    self,            \* the Team object get_members is called on
    declared,        \* the same Team as it was constructed (never assigned again)
    arg,             \* the caller's shuffle_method argument, or Absent
    shuffle_method,  \* the parameter of the running call
    teams,           \* get_members' work stack (top = last element)
    members,         \* get_members' accumulator
    pc,              \* "idle", "loop", "done", "error" ("off": no Team)
    result,          \* outcome of the last get_members call that ended
    team_dict,       \* the dict handed to build_team_from_dict
    built,           \* outcome of build_team_from_dict(team_dict)
    dumped,          \* outcome of built.to_dict()
    rebuilt,         \* outcome of build_team_from_dict(built.to_dict())
    bpc              \* "start", "built", "failed", "dumped", "rebuilt"
                     \* ("off": no dict)

vars == <<self, declared, arg, shuffle_method, teams, members, pc, result,
          team_dict, built, dumped, rebuilt, bpc>>
orderVars == <<self, declared, arg, shuffle_method, teams, members, pc, result>>
buildVars == <<team_dict, built, dumped, rebuilt, bpc>>

----------------------------------------------------------------------------
(* Bounds of the model *)

\* most nodes in a Team tree handed to get_members
MaxNodes == 4
\* most member names in a Team tree handed to get_members
MaxNames == 3
\* most nodes in a dict handed to build_team_from_dict
MaxDictNodes == 3
\* most member names in a dict handed to build_team_from_dict
MaxDictNames == 1

MemberNames == {"Al", "Bo"}
\* a team is named after its position among its siblings
TeamNames == <<"A", "B", "C", "D", "E", "F">>
RootName == "Team"

----------------------------------------------------------------------------
(* Python values *)

None == <<>>
Some(x) == <<x>>
Val(o) == o[1]

Ok(v) == [ok |-> TRUE, val |-> v]
Raise(kind, msg) == [ok |-> FALSE, val |-> <<kind, msg>>]

\* bool(x) of an Optional list: None and the empty list are both false
Truthy(o) == o # None /\ Len(Val(o)) > 0

Reversed(s) == [i \in 1..Len(s) |-> s[Len(s) + 1 - i]]

\* all orderings of the list s (one per permutation of its positions)
Orderings(s) ==
    {[i \in 1..Len(s) |-> s[p[i]]] :
        p \in {q \in [1..Len(s) -> 1..Len(s)] :
                 \A i, j \in 1..Len(s) : q[i] = q[j] => i = j}}

----------------------------------------------------------------------------
(* _assert_members_xor_subteams and the messages it raises *)

MsgNeither == "Either members or subteams are required."
MsgBoth == "Team cannot contain members and subteams at the same level."

AssertMembersXorSubteams(m, s) ==
    LET no_members == (m = None)
        no_subteams == (s = None)
    IN IF no_members = no_subteams
       THEN IF no_members
            THEN Raise("ValueError", MsgNeither)
            ELSE Raise("ValueError", MsgBoth)
       ELSE Ok(None)

(* ShuffleMethod *)
NONE == "none"
GROUPED == "grouped"
UNGROUPED == "ungrouped"
ShuffleMethod == {NONE, GROUPED, UNGROUPED}

\* a call that passes no shuffle_method
Absent == "absent"

(* Team.__init__ *)
TeamInit(name, m, s) ==
    LET chk == AssertMembersXorSubteams(m, s)
    IN IF ~chk.ok THEN chk
       ELSE Ok([name |-> name, members |-> m, subteams |-> s])

----------------------------------------------------------------------------
(* The Team trees of the model: every tree the constructor accepts, with    *)
(* at most MaxNodes nodes and at most MaxNames member names in all.          *)

\* the number of member names in the tree
RECURSIVE Count(_)
Count(t) ==
    IF t.subteams = None THEN Len(Val(t.members))
    ELSE LET F[i \in 0..Len(Val(t.subteams))] ==
                 IF i = 0 THEN 0 ELSE F[i - 1] + Count(Val(t.subteams)[i])
         IN F[Len(Val(t.subteams))]

\* the member lists of exactly k names
ListsOf(k) == [1..k -> MemberNames]

\* The trees are tabulated by size: a table <<T, F>> of level n holds in T
\* the entries <<nodes, names, team>> of the unnamed teams of at most n
\* nodes and in F the entries <<nodes, names, list of teams>> of the lists
\* of teams of at most n nodes in all, none with more than MaxNames names.
NewTeams(n, F) ==
    (IF n = 1
     THEN UNION {{<<1, k, TeamInit("", Some(l), None).val>> : l \in ListsOf(k)} :
                    k \in 0..MaxNames}
     ELSE {})
    \cup {<<n, y[2], TeamInit("", None, Some(y[3])).val>> :
             y \in {z \in F : z[1] = n - 1}}

NewForests(n, T, F) ==
    UNION {{<<n, p[1][2] + p[2][2], <<p[1][3]>> \o p[2][3]>> :
               p \in {q \in {t \in T : t[1] = s} \X {f \in F : f[1] = n - s} :
                        q[1][2] + q[2][2] <= MaxNames}}
           : s \in 1..n}

WithForests(n, T, F) == <<T, F \cup NewForests(n, T, F)>>
Extend(n, prev) == WithForests(n, prev[1] \cup NewTeams(n, prev[2]), prev[2])

RECURSIVE Tables(_)
Tables(n) ==
    IF n = 0 THEN << {}, {<<0, 0, <<>>>>} >> ELSE Extend(n, Tables(n - 1))

TeamsUpTo(n, prev) == {e[3] : e \in prev[1] \cup NewTeams(n, prev[2])}

\* the team with its nodes named: the i-th subteam of a team is TeamNames[i]
RECURSIVE Named(_, _)
Named(t, name) ==
    IF t.subteams = None THEN TeamInit(name, t.members, None).val
    ELSE TeamInit(name, None,
                  Some([i \in 1..Len(Val(t.subteams)) |->
                           Named(Val(t.subteams)[i], TeamNames[i])])).val

AllTeams ==
    {Named(t, RootName) : t \in TeamsUpTo(MaxNodes, Tables(MaxNodes - 1))}

----------------------------------------------------------------------------
(* Team.get_members *)

\* the default of the command line (line 199) taken for the method's
DefaultUngrouped == UNGROUPED

DefaultShuffleMethod == GROUPED

\* random.choices in place of random.sample: names drawn with replacement
SampleWithReplacement(population) ==
    [1..Len(population) -> {population[i] : i \in 1..Len(population)}]

\* random.sample(population, len(population)): a new list, some ordering
Sample(population) == Orderings(population)

\* random.shuffle(x): x reordered in place, some ordering
Shuffle(x) == Orderings(x)

\* teams.pop(): the last element leaves the list
Top(stack) == stack[Len(stack)]
Pop(stack) == SubSeq(stack, 1, Len(stack) - 1)

\* teams.extend(reversed(team.subteams))
PushSubteams(stack, team) == stack \o Reversed(Val(team.subteams))

TypeErrorNone == Raise("TypeError", "NoneType")

Call(a) ==
    /\ pc \in {"idle", "done", "error"}
    /\ arg' = a
    /\ shuffle_method' = IF a = Absent THEN DefaultShuffleMethod ELSE a
    /\ teams' = <<self>>
    /\ members' = <<>>
    /\ result' = None
    /\ pc' = "loop"
    /\ UNCHANGED <<self, declared>>
    /\ UNCHANGED buildVars

\* one iteration of the while loop, at a team with subteams
Descend ==
    /\ pc = "loop" /\ teams # <<>>
    /\ Truthy(Top(teams).subteams)
    /\ teams' = PushSubteams(Pop(teams), Top(teams))
    /\ UNCHANGED <<self, declared, arg, shuffle_method, members, pc, result>>
    /\ UNCHANGED buildVars

\* one iteration of the while loop, at a team whose subteams are falsy
Emit ==
    /\ pc = "loop" /\ teams # <<>>
    /\ ~Truthy(Top(teams).subteams)
    /\ Top(teams).members # None
    /\ teams' = Pop(teams)
    /\ IF shuffle_method = GROUPED
       THEN \E s \in Sample(Val(Top(teams).members)) : members' = members \o s
       ELSE members' = members \o Val(Top(teams).members)
    /\ UNCHANGED <<self, declared, arg, shuffle_method, pc, result>>
    /\ UNCHANGED buildVars

\* the same iteration when team.members is None: len(None) or
\* extend(None) raises TypeError and the call ends
EmitNone ==
    /\ pc = "loop" /\ teams # <<>>
    /\ ~Truthy(Top(teams).subteams)
    /\ Top(teams).members = None
    /\ teams' = Pop(teams)
    /\ result' = TypeErrorNone
    /\ pc' = "error"
    /\ UNCHANGED <<self, declared, arg, shuffle_method, members>>
    /\ UNCHANGED buildVars

\* the loop is over: the final shuffle under UNGROUPED, then return
Return ==
    /\ pc = "loop" /\ teams = <<>>
    /\ IF shuffle_method = UNGROUPED
       THEN \E s \in Shuffle(members) : members' = s /\ result' = Ok(s)
       ELSE members' = members /\ result' = Ok(members)
    /\ pc' = "done"
    /\ UNCHANGED <<self, declared, arg, shuffle_method, teams>>
    /\ UNCHANGED buildVars

----------------------------------------------------------------------------
(* dicts: d.get(key), and the dicts of the model *)

Get(d, key) == IF key \in DOMAIN d THEN d[key] ELSE None

Merge(f, g) ==
    [x \in DOMAIN f \cup DOMAIN g |-> IF x \in DOMAIN f THEN f[x] ELSE g[x]]

\* the entry of a dict for one key: no entry, a null value, or a list
Entry(key, shape, v) ==
    IF shape = "absent" THEN <<>>
    ELSE [x \in {key} |-> IF shape = "null" THEN None ELSE Some(v)]

\* the 'members' entries of a dict: none, a null, or a list
MemberEntries ==
    {Entry("members", "absent", <<>>), Entry("members", "null", <<>>)}
    \cup UNION {{Entry("members", "list", l) : l \in ListsOf(k)} :
                   k \in 0..MaxDictNames}

NamesIn(me) == IF Get(me, "members") = None THEN 0 ELSE Len(Val(me["members"]))

\* The dicts are tabulated like the teams: every dict with a name, with or
\* without 'members' and 'subteams', each of them null or a list.
NewDicts(n, F) ==
    (IF n = 1
     THEN {<<1, NamesIn(me), Merge([name |-> ""], Merge(me, se))>> :
              me \in MemberEntries,
              se \in {Entry("subteams", "absent", <<>>),
                      Entry("subteams", "null", <<>>)}}
     ELSE {})
    \cup {<<n, NamesIn(p[1]) + p[2][2],
            Merge([name |-> ""], Merge(p[1], Entry("subteams", "list", p[2][3])))>> :
             p \in {q \in MemberEntries \X {z \in F : z[1] = n - 1} :
                      NamesIn(q[1]) + q[2][2] <= MaxDictNames}}

NewDictForests(n, T, F) ==
    UNION {{<<n, p[1][2] + p[2][2], <<p[1][3]>> \o p[2][3]>> :
               p \in {q \in {t \in T : t[1] = s} \X {f \in F : f[1] = n - s} :
                        q[1][2] + q[2][2] <= MaxDictNames}}
           : s \in 1..n}

WithDictForests(n, T, F) == <<T, F \cup NewDictForests(n, T, F)>>
ExtendDicts(n, prev) ==
    WithDictForests(n, prev[1] \cup NewDicts(n, prev[2]), prev[2])

RECURSIVE DictTables(_)
DictTables(n) ==
    IF n = 0 THEN << {}, {<<0, 0, <<>>>>} >>
    ELSE ExtendDicts(n, DictTables(n - 1))

DictsUpTo(n, prev) == {e[3] : e \in prev[1] \cup NewDicts(n, prev[2])}

\* the dict with its nodes named like the teams
RECURSIVE NamedDict(_, _)
NamedDict(d, name) ==
    Merge([name |-> name],
          IF Get(d, "subteams") = None THEN d
          ELSE Merge([subteams |->
                         Some([i \in 1..Len(Val(d["subteams"])) |->
                                  NamedDict(Val(d["subteams"])[i], TeamNames[i])])],
                     d))

AllDicts ==
    {NamedDict(d, RootName) :
        d \in DictsUpTo(MaxDictNodes, DictTables(MaxDictNodes - 1))}

----------------------------------------------------------------------------
(* build_team_from_dict and Team.to_dict *)

\* the same check with the name of the node put before the message
RecordCheckNamed(d) ==
    LET chk == AssertMembersXorSubteams(Get(d, "members"), Get(d, "subteams"))
    IN IF chk.ok THEN chk
       ELSE Raise("ValueError", d["name"] \o ": " \o chk.val[2])

\* the check of the dict's two fields, before anything is constructed
RecordCheck(d) ==
    AssertMembersXorSubteams(Get(d, "members"), Get(d, "subteams"))

\* the list comprehension over the subteams: the first raise ends it
FirstRaise(outcomes) ==
    LET bad == {i \in 1..Len(outcomes) : ~outcomes[i].ok}
    IN IF bad = {} THEN None
       ELSE Some(outcomes[CHOOSE i \in bad : \A j \in bad : i <= j])

RECURSIVE BuildTeamFromDict(_)
BuildTeamFromDict(d) ==
    LET chk == RecordCheck(d)
    IN IF ~chk.ok THEN chk
       ELSE IF "members" \in DOMAIN d
       THEN TeamInit(d["name"], d["members"], None)
       ELSE LET subs == Val(d["subteams"])
                outcomes == [i \in 1..Len(subs) |-> BuildTeamFromDict(subs[i])]
            IN IF FirstRaise(outcomes) # None THEN Val(FirstRaise(outcomes))
               ELSE TeamInit(d["name"], None,
                             Some([i \in 1..Len(subs) |-> outcomes[i].val]))

RECURSIVE ToDict(_)
ToDict(t) ==
    IF t.members = None
    THEN [name |-> t.name,
          subteams |-> Some([i \in 1..Len(Val(t.subteams)) |->
                                ToDict(Val(t.subteams)[i])])]
    ELSE [name |-> t.name, members |-> t.members]

Build ==
    /\ bpc = "start"
    /\ built' = BuildTeamFromDict(team_dict)
    /\ bpc' = IF built'.ok THEN "built" ELSE "failed"
    /\ UNCHANGED <<team_dict, dumped, rebuilt>>
    /\ UNCHANGED orderVars

Dump ==
    /\ bpc = "built"
    /\ dumped' = ToDict(built.val)
    /\ bpc' = "dumped"
    /\ UNCHANGED <<team_dict, built, rebuilt>>
    /\ UNCHANGED orderVars

Rebuild ==
    /\ bpc = "dumped"
    /\ rebuilt' = BuildTeamFromDict(dumped)
    /\ bpc' = "rebuilt"
    /\ UNCHANGED <<team_dict, built, dumped>>
    /\ UNCHANGED orderVars

----------------------------------------------------------------------------
(* The specifications *)

\* get_members called, any number of times, on a constructed Team
Init ==
    /\ self \in AllTeams
    /\ declared = self
    /\ arg = Absent
    /\ shuffle_method = DefaultShuffleMethod
    /\ teams = <<>>
    /\ members = <<>>
    /\ pc = "idle"
    /\ result = None
    /\ team_dict = None
    /\ built = None
    /\ dumped = None
    /\ rebuilt = None
    /\ bpc = "off"

Next ==
    \/ \E a \in ShuffleMethod \cup {Absent} : Call(a)
    \/ Descend
    \/ Emit
    \/ EmitNone
    \/ Return

Spec == Init /\ [][Next]_vars

\* build_team_from_dict on a dict, then to_dict, then build again
InitBuild ==
    /\ team_dict \in AllDicts
    /\ built = None
    /\ dumped = None
    /\ rebuilt = None
    /\ bpc = "start"
    /\ self = None
    /\ declared = None
    /\ arg = Absent
    /\ shuffle_method = DefaultShuffleMethod
    /\ teams = <<>>
    /\ members = <<>>
    /\ pc = "off"
    /\ result = None

NextBuild ==
    \/ Build
    \/ Dump
    \/ Rebuild

SpecBuild == InitBuild /\ [][NextBuild]_vars
----------------------------------------------------------------------------
(* What the claims speak of *)

Range(s) == {s[i] : i \in 1..Len(s)}

\* a and b hold the same names, each the same number of times
SameMultiset(a, b) ==
    /\ Len(a) = Len(b)
    /\ \A x \in Range(a) \cup Range(b) :
          Cardinality({i \in 1..Len(a) : a[i] = x})
              = Cardinality({i \in 1..Len(b) : b[i] = x})

\* the member lists of the leaves of t, depth first, subteams in declared order
RECURSIVE Leaves(_)
Leaves(t) ==
    IF t.subteams = None THEN <<Val(t.members)>>
    ELSE LET subs == Val(t.subteams)
             F[i \in 0..Len(subs)] ==
                 IF i = 0 THEN <<>> ELSE F[i - 1] \o Leaves(subs[i])
         IN F[Len(subs)]

RECURSIVE Concat(_)
Concat(ls) == IF ls = <<>> THEN <<>> ELSE Head(ls) \o Concat(Tail(ls))

\* the depth-first, declared-order flattening of t
Flatten(t) == Concat(Leaves(t))

\* the concatenations of one ordering per leaf, in leaf order
RECURSIVE Blockwise(_)
Blockwise(ls) ==
    IF ls = <<>> THEN {<<>>}
    ELSE {b \o r : b \in Orderings(Head(ls)), r \in Blockwise(Tail(ls))}

Ended == pc \in {"done", "error"}
Returned == pc = "done"

----------------------------------------------------------------------------
C2_NoneReturnsFlattening ==
    /\ self = declared
    /\ (Ended /\ shuffle_method = NONE) =>
           (Returned /\ result = Ok(Flatten(declared)))

\* the part of C2 that concerns the calls that return
C2_WhenReturned ==
    /\ self = declared
    /\ (Returned /\ shuffle_method = NONE) => result = Ok(Flatten(declared))

(* C3: a call with GROUPED returns one block per leaf, in declared leaf      *)
(* order, each block an ordering of that leaf's members, and at each leaf    *)
(* every ordering of its members can be the block.                           *)
C3_GroupedBlocks ==
    /\ (Ended /\ shuffle_method = GROUPED) =>
           (Returned /\ result.val \in Blockwise(Leaves(declared)))
    /\ (pc = "loop" /\ shuffle_method = GROUPED /\ teams # <<>>) =>
           ((~Truthy(Top(teams).subteams) /\ Top(teams).members # None) =>
               \A b \in Orderings(Val(Top(teams).members)) :
                     ENABLED (Emit /\ members' = members \o b))

\* the part of C3 that concerns the calls that return and the leaves
C3_WhenReturned ==
    /\ (Returned /\ shuffle_method = GROUPED) =>
           result.val \in Blockwise(Leaves(declared))
    /\ (pc = "loop" /\ shuffle_method = GROUPED /\ teams # <<>>) =>
           ((~Truthy(Top(teams).subteams) /\ Top(teams).members # None) =>
               \A b \in Orderings(Val(Top(teams).members)) :
                     ENABLED (Emit /\ members' = members \o b))

(* C4: the possible results of a call with UNGROUPED are exactly the         *)
(* orderings of the declared flattening: the call returns one of them, and   *)
(* each of them can be returned.                                             *)
C4_UngroupedAnyOrdering ==
    /\ (Ended /\ shuffle_method = UNGROUPED) =>
           (Returned /\ result.val \in Orderings(Flatten(declared)))
    /\ (pc = "loop" /\ shuffle_method = UNGROUPED /\ teams = <<>>) =>
           \A o \in Orderings(Flatten(declared)) :
               ENABLED (Return /\ result' = Ok(o))

\* the part of C4 that concerns the calls that return
C4_WhenReturned ==
    /\ (Returned /\ shuffle_method = UNGROUPED) =>
           result.val \in Orderings(Flatten(declared))
    /\ (pc = "loop" /\ shuffle_method = UNGROUPED /\ teams = <<>>) =>
           \A o \in Orderings(Flatten(declared)) :
               ENABLED (Return /\ result' = Ok(o))

(* C7: a get_members call that passes no shuffle method never produces an   *)
(* ordering.                                                                 *)
C7_NoSilentDefault == ~(arg = Absent /\ Returned)

(* C7 as amended: a call that passes no shuffle method runs under GROUPED,   *)
(* and what it returns is a GROUPED result: one block per leaf in declared   *)
(* leaf order.                                                               *)
C7_DefaultIsGrouped ==
    (arg = Absent /\ pc \in {"loop", "done", "error"}) =>
        /\ shuffle_method = GROUPED
        /\ Returned => result.val \in Blockwise(Leaves(declared))

\* a call without a shuffle method returned a leaf's members reordered
C7_Witness ==
    /\ arg = Absent
    /\ Returned
    /\ Len(result.val) >= 2
    /\ result.val # Flatten(declared)

(* C9: on every tree the constructor accepts, under every shuffle method,    *)
(* the traversal never ends in an error: the loop runs until the stack is    *)
(* empty and the call returns a list.                                        *)
C9_NeverEndsInError ==
    /\ pc # "error"
    /\ Returned => (teams = <<>> /\ result.ok)

----------------------------------------------------------------------------
(* What the claims about build_team_from_dict speak of *)

\* exactly one of the two fields of the node is set (not None)
NodeValid(d) == (Get(d, "members") = None) # (Get(d, "subteams") = None)

ViolationKind(d) ==
    IF Get(d, "members") = None THEN "neither" ELSE "both"

MessageOf(kind) == IF kind = "neither" THEN MsgNeither ELSE MsgBoth

\* the nodes of a dict, each with its path: the positions to follow from
\* the root through the subteams lists
RECURSIVE NodesOf(_, _)
NodesOf(d, path) ==
    {[path |-> path, node |-> d]} \cup
    (IF Get(d, "subteams") = None THEN {}
     ELSE UNION {NodesOf(Val(d["subteams"])[i], Append(path, i)) :
                    i \in 1..Len(Val(d["subteams"]))})

Violating(d) == {n \in NodesOf(d, <<>>) : ~NodeValid(n.node)}

\* a is before b in the order build_team_from_dict visits the nodes
RECURSIVE Before(_, _)
Before(a, b) ==
    IF a = <<>> THEN TRUE
    ELSE IF b = <<>> THEN FALSE
    ELSE IF Head(a) # Head(b) THEN Head(a) < Head(b)
    ELSE Before(Tail(a), Tail(b))

\* the violating node the build meets first
Offender(d) ==
    CHOOSE n \in Violating(d) : \A m \in Violating(d) : Before(n.path, m.path)

\* same name, same members or same subteams in the same order, recursively
RECURSIVE RecordEqual(_, _)
RecordEqual(a, b) ==
    /\ a["name"] = b["name"]
    /\ Get(a, "members") = Get(b, "members")
    /\ (Get(a, "subteams") = None) = (Get(b, "subteams") = None)
    /\ Get(a, "subteams") # None =>
          /\ Len(Val(a["subteams"])) = Len(Val(b["subteams"]))
          /\ \A i \in 1..Len(Val(a["subteams"])) :
                RecordEqual(Val(a["subteams"])[i], Val(b["subteams"])[i])

BuildEnded == bpc \in {"built", "failed", "dumped", "rebuilt"}
ValueErrors == {<<"ValueError", MsgNeither>>, <<"ValueError", MsgBoth>>}

(* C5: build_team_from_dict raises the validation error when some node of   *)
(* the dict, at any depth, has both fields set or neither, with the message  *)
(* of one of the violations present, the two messages being different; and   *)
(* it returns a Team when every node has exactly one of the two set.         *)
C5_FailsIffSomeNodeInvalid ==
    /\ MsgNeither # MsgBoth
    /\ BuildEnded =>
          IF Violating(team_dict) = {}
          THEN built.ok
          ELSE /\ ~built.ok
               /\ \E n \in Violating(team_dict) :
                     built.val = <<"ValueError", MessageOf(ViolationKind(n.node))>>

\* a node whose 'members' key is there with a null value beside a list of
\* subteams
NullMembersBesideSubteams(d) ==
    /\ "members" \in DOMAIN d
    /\ d["members"] = None
    /\ Get(d, "subteams") # None

\* C5 on the dicts that hold no such node
C5_ApartFromNullMembers ==
    (BuildEnded /\ \A n \in NodesOf(team_dict, <<>>) :
                       ~NullMembersBesideSubteams(n.node)) =>
          IF Violating(team_dict) = {}
          THEN built.ok
          ELSE /\ ~built.ok
               /\ built.val =
                    <<"ValueError", MessageOf(ViolationKind(Offender(team_dict).node))>>

(* C6: for a dict valid at every node, to_dict of the built Team is          *)
(* record-equal to the dict; and building the to_dict of a Team gives a      *)
(* Team equal to it.                                                         *)
C6_RoundTrip ==
    /\ (BuildEnded /\ Violating(team_dict) = {}) => built.ok
    /\ bpc \in {"dumped", "rebuilt"} => RecordEqual(dumped, team_dict)
    /\ bpc = "rebuilt" => rebuilt = Ok(built.val)

\* the part of C6 that concerns the dicts that are built
C6_WhenBuilt ==
    /\ bpc \in {"dumped", "rebuilt"} => RecordEqual(dumped, team_dict)
    /\ bpc = "rebuilt" => rebuilt = Ok(built.val)

(* C8: when build_team_from_dict fails on a node that violates the           *)
(* exactly-one rule, the error value identifies that node: no dict whose     *)
(* offending node has another name or another path fails with the same       *)
(* error value.                                                              *)
C8_ErrorIdentifiesNode ==
    (bpc = "failed" /\ Violating(team_dict) # {}) =>
        \A d \in AllDicts :
            (/\ Violating(d) # {}
             /\ ~BuildTeamFromDict(d).ok
             /\ BuildTeamFromDict(d).val = built.val) =>
                /\ Offender(d).path = Offender(team_dict).path
                /\ Offender(d).node["name"] = Offender(team_dict).node["name"]

(* C8 as amended: when build_team_from_dict fails, the error value is a      *)
(* ValueError with one of the two fixed messages, which tell the kind of     *)
(* violation and nothing of the node: neither its name nor its path.         *)
C8_ErrorTellsKindOnly ==
    bpc = "failed" => (~built.ok /\ built.val \in ValueErrors)

\* the build failed on a nested subteam that has neither field
C8_Witness ==
    /\ bpc = "failed"
    /\ Violating(team_dict) # {}
    /\ Offender(team_dict).path # <<>>
    /\ ViolationKind(Offender(team_dict).node) = "neither"
    /\ built.val = <<"ValueError", MsgNeither>>

(* C10: at every node, when the check of the dict's two fields passes and    *)
(* the subteams of the node are built, the Team constructor passes too: the  *)
(* build of the node does not raise.                                         *)
C10_ChecksAgree ==
    BuildEnded =>
        \A n \in NodesOf(team_dict, <<>>) :
            (/\ RecordCheck(n.node).ok
             /\ \/ "members" \in DOMAIN n.node
                \/ \A i \in 1..Len(Val(n.node["subteams"])) :
                      BuildTeamFromDict(Val(n.node["subteams"])[i]).ok)
                => BuildTeamFromDict(n.node).ok
====
